---- MODULE Spec2Model ----
(***************************************************************************)
(* certstream-slack: func main of main.go as a state machine.              *)
(*                                                                         *)
(* A Go string is a sequence of one-character strings, so that byte order, *)
(* colon stripping and concatenation are computed and not assumed.  The    *)
(* decoded JSON message is a record with one tagged value for each path    *)
(* the program queries:                                                    *)
(*   message_type  ~ jq path "message_type"                                *)
(*   all_domains   ~ jq path "data","leaf_cert","all_domains"              *)
(*   fingerprint   ~ jq path "data","leaf_cert","fingerprint"              *)
(* The variables logs and deliveries record what the process did to the    *)
(* outside world (logrus entries, calls of slack.Send); every other        *)
(* variable is a variable of main.                                         *)
(***************************************************************************)
EXTENDS Integers, Sequences, FiniteSets, TLC

\* ------------------------------------------------------------------ bounds
\* Messages received before the feed goes silent.
MaxEvents == 2
\* Longest all_domains array the feed delivers.
MaxDomains == 3
\* Most errors one call of slack.Send returns.
MaxSendErrors == 1

\* ------------------------------------------------------ strings as bytes
\* The characters that occur, in ascending byte order.
Bytes ==
  <<" ","$","(",")",",",".","/","0","1","2","3","4","5","6","7","8","9",
    ":","=","?","A","B","C","F","S","^","_","backtick","a","b","c","d","e","f","g",
    "h","i","j","k","l","m","n","o","p","q","r","s","t","u","v","w","x","y",
    "z">>

Ord(c) == CHOOSE i \in 1..Len(Bytes) : Bytes[i] = c

Min(a, b) == IF a < b THEN a ELSE b

\* a < b on Go strings: bytewise lexicographic order.
StrLess(a, b) ==
  \/ \E i \in 1..Min(Len(a), Len(b)) :
        /\ \A j \in 1..(i - 1) : a[j] = b[j]
        /\ Ord(a[i]) < Ord(b[i])
  \/ /\ Len(a) < Len(b)
     /\ \A j \in 1..Len(a) : a[j] = b[j]

\* A faulty variant: the element goes to the front, whatever its order.
InsertSortedFront(x, s) == <<x>> \o s

\* sort.Strings: the ascending arrangement of the slice (insertion).
RECURSIVE InsertSorted(_, _)
InsertSorted(x, s) ==
  IF s = <<>> THEN <<x>>
  ELSE IF StrLess(x, Head(s)) THEN <<x>> \o s
  ELSE <<Head(s)>> \o InsertSorted(x, Tail(s))

\* A faulty sort.Strings: the slice is left in input order.
SortStringsNone(s) == s

RECURSIVE SortStrings(_)
SortStrings(s) ==
  IF s = <<>> THEN <<>> ELSE InsertSorted(Head(s), SortStrings(Tail(s)))

\* strings.Join(elems, sep)
RECURSIVE Join(_, _)
Join(elems, sep) ==
  IF elems = <<>> THEN <<>>
  ELSE IF Len(elems) = 1 THEN elems[1]
  ELSE elems[1] \o sep \o Join(Tail(elems), sep)

\* A faulty variant: strings.Replace(s, old, new, 1).
ReplaceFirst(s, old, new) ==
  IF \E i \in 1..Len(s) : s[i] = old
  THEN LET i == CHOOSE k \in 1..Len(s) :
                  s[k] = old /\ \A j \in 1..(k - 1) : s[j] # old
       IN  SubSeq(s, 1, i - 1) \o new \o SubSeq(s, i + 1, Len(s))
  ELSE s

\* strings.Replace(s, old, new, -1) for a one-byte old.
RECURSIVE ReplaceAll(_, _, _)
ReplaceAll(s, old, new) ==
  IF s = <<>> THEN <<>>
  ELSE (IF Head(s) = old THEN new ELSE <<Head(s)>>)
         \o ReplaceAll(Tail(s), old, new)

\* The verb %d of fmt for a non-negative int.
Digit(d) == Bytes[Ord("0") + d]

RECURSIVE Itoa(_)
Itoa(n) == IF n < 10 THEN <<Digit(n)>> ELSE Itoa(n \div 10) \o <<Digit(n % 10)>>

\* ------------------------------------------------------------- literals
CertificateUpdate ==
  <<"c","e","r","t","i","f","i","c","a","t","e","_","u","p","d","a","t","e">>
Heartbeat == <<"h","e","a","r","t","b","e","a","t">>
FoundPrefix ==
  <<"F","o","u","n","d"," ","m","a","t","c","h","i","n","g"," ",
    "c","e","r","t","i","f","i","c","a","t","e"," ","f","o","r"," ">>
CrtShPrefix ==
  <<"h","t","t","p","s",":","/","/","c","r","t",".","s","h","/","?","q","=">>
OthersSuffix == <<" ","o","t","h","e","r","s">>
And == <<"a","n","d">>
\* The byte 0x60, which a TLA+ string cannot hold.
Backtick == <<"backtick">>

\* --------------------------------------------------------------- regexp
\* The patterns of the model are of the form [^] literal-or-dot* [$], or
\* contain a group that is never closed.
RECURSIVE Count(_, _)
Count(s, c) ==
  IF s = <<>> THEN 0 ELSE (IF Head(s) = c THEN 1 ELSE 0) + Count(Tail(s), c)

\* regexp.Compile
Compile(p) ==
  IF Count(p, "(") # Count(p, ")")
  THEN [err |-> TRUE, bol |-> FALSE, eol |-> FALSE, body |-> <<>>]
  ELSE LET bol == p # <<>> /\ p[1] = "^"
           p1  == IF bol THEN Tail(p) ELSE p
           eol == p1 # <<>> /\ p1[Len(p1)] = "$"
           p2  == IF eol THEN SubSeq(p1, 1, Len(p1) - 1) ELSE p1
       IN  [err |-> FALSE, bol |-> bol, eol |-> eol, body |-> p2]

MatchAt(body, s, i) ==
  /\ i + Len(body) - 1 <= Len(s)
  /\ \A k \in 1..Len(body) : body[k] = "." \/ body[k] = s[i + k - 1]

\* (*Regexp).MatchString: an unanchored search.
MatchString(re, s) ==
  \E i \in 1..(Len(s) + 1) :
     /\ MatchAt(re.body, s, i)
     /\ re.bol => i = 1
     /\ re.eol => i + Len(re.body) - 1 = Len(s)

\* A faulty variant: strings.Join(words, ",").
OxfordWordSeriesCommas(words, conjunction) == Join(words, <<",">>)

\* A faulty variant: english.WordSeries, with no comma before the conjunction.
OxfordWordSeriesNoComma(words, conjunction) ==
  IF Len(words) <= 1 THEN Join(words, <<>>)
  ELSE Join(SubSeq(words, 1, Len(words) - 1), <<",", " ">>)
         \o <<" ">> \o conjunction \o <<" ">> \o words[Len(words)]

\* english.OxfordWordSeries(words, conjunction)
OxfordWordSeries(words, conjunction) ==
  CASE Len(words) = 0 -> <<>>
    [] Len(words) = 1 -> words[1]
    [] Len(words) = 2 -> Join(words, <<" ">> \o conjunction \o <<" ">>)
    [] OTHER ->
         Join(SubSeq(words, 1, Len(words) - 1), <<",", " ">>)
           \o <<",", " ">> \o conjunction \o <<" ">> \o words[Len(words)]

\* ----------------------------------------------------------------- jsonq
Absent   == [t |-> "absent", s |-> <<>>, a |-> <<>>]
JStr(s)  == [t |-> "string", s |-> s,    a |-> <<>>]
JArr(a)  == [t |-> "array",  s |-> <<>>, a |-> a]

\* (*JsonQuery).String: the string at the path, or "" and an error.
jqString(v) ==
  IF v.t = "string" THEN [val |-> v.s, err |-> FALSE]
  ELSE [val |-> <<>>, err |-> TRUE]

\* (*JsonQuery).ArrayOfStrings: the array at the path, or an error.
jqArrayOfStrings(v) ==
  IF v.t = "array" THEN [val |-> v.a, err |-> FALSE]
  ELSE [val |-> <<>>, err |-> TRUE]

\* ----------------------------------------------------------- environment
\* Values of SLACK_WEBHOOK_URL (unset reads as "").
WebhookURLs == {<<>>, <<"h","t","t","p","s",":","/","/","S">>}

PatHeptio  == <<"h","e","p","t","i","o">>
PatNoMatch == <<"^","n","o","m","a","t","c","h","$">>
PatBad     == <<"(">>
\* Values of DOMAIN_PATTERN (unset reads as "").
Patterns == {<<>>, PatBad, PatHeptio, PatNoMatch}

AHeptio == <<"a",".","h","e","p","t","i","o",".","c","o","m">>
BOther  == <<"b",".","o","t","h","e","r",".","c","o","m">>
CHeptio == <<"c",".","h","e","p","t","i","o",".","c","o","m">>
\* AHeptio is a proper prefix of this one.
AHeptioAu == <<"a",".","h","e","p","t","i","o",".","c","o","m",".","a","u">>
Domains == {AHeptio, AHeptioAu, BOther, CHeptio}

FpABC == <<"A","A",":","B","B",":","C","C">>

\* The feed lists each name of a certificate once: arrays without repeats.
SeqsUpTo(S, n) ==
  {a \in UNION {[1..k -> S] : k \in 0..n} :
     \A i, j \in DOMAIN a : i # j => a[i] # a[j]}

\* The decoded messages the feed may deliver.
MessageTypes == {Absent, JStr(Heartbeat), JStr(CertificateUpdate)}
DomainFields ==
  {Absent, JStr(BOther)} \cup {JArr(a) : a \in SeqsUpTo(Domains, MaxDomains)}
FingerprintFields == {Absent, JStr(FpABC)}
Events ==
  [message_type : MessageTypes, all_domains : DomainFields,
   fingerprint : FingerprintFields]

NoMsg == [message_type |-> Absent, all_domains |-> Absent, fingerprint |-> Absent]

\* ---------------------------------------------------------------- state
VARIABLES
  pc,            \* position of main
  webhookURL,    \* os.Getenv("SLACK_WEBHOOK_URL")
  domainPattern, \* os.Getenv("DOMAIN_PATTERN")
  domainRegex,   \* the compiled pattern
  conn,          \* "none", "open" or "closed"
  dials,         \* calls of Dial
  nRecv,         \* calls of conn.ReadJSON
  msg,           \* the message decoded by this iteration
  domains,       \* leaf_cert.all_domains of msg
  matches,       \* the notification's entries
  fingerprint,   \* leaf_cert.fingerprint of msg
  certURL,       \* the crt.sh lookup URL
  payload,       \* payload.Text
  logs,          \* logrus entries written so far
  deliveries,    \* calls of slack.Send so far
  exitCode       \* -1 while the process runs

vars ==
  <<pc, webhookURL, domainPattern, domainRegex, conn, dials, nRecv, msg,
    domains, matches, fingerprint, certURL, payload, logs, deliveries,
    exitCode>>

env    == <<webhookURL, domainPattern>>
locals == <<msg, domains, matches, fingerprint, certURL, payload>>

NoRegex == [err |-> TRUE, bol |-> FALSE, eol |-> FALSE, body |-> <<>>]

Entry(level, text, fields, fp) ==
  [ev |-> nRecv, level |-> level, msg |-> text, fields |-> fields, fp |-> fp]

Init ==
  /\ pc = "config"
  /\ webhookURL \in WebhookURLs
  /\ domainPattern \in Patterns
  /\ domainRegex = NoRegex
  /\ conn = "none"
  /\ dials = 0
  /\ nRecv = 0
  /\ msg = NoMsg
  /\ domains = <<>>
  /\ matches = <<>>
  /\ fingerprint = <<>>
  /\ certURL = <<>>
  /\ payload = <<>>
  /\ logs = <<>>
  /\ deliveries = <<>>
  /\ exitCode = -1

\* log.Fatal: write the entry, then os.Exit(1).  Deferred calls do not run.
Fatal(text, fields) ==
  /\ logs' = Append(logs, Entry("fatal", text, fields, <<>>))
  /\ pc' = "exited"
  /\ exitCode' = 1

\* A faulty variant: an empty DOMAIN_PATTERN is not rejected.
CheckConfigNoEmptyPattern ==
  /\ pc = "config"
  /\ \/ /\ webhookURL = <<>>
        /\ Fatal("SLACK_WEBHOOK_URL must be set", {})
        /\ UNCHANGED domainRegex
     \/ /\ webhookURL # <<>>
        /\ Compile(domainPattern).err
        /\ Fatal("invalid DOMAIN_PATTERN", {"error"})
        /\ UNCHANGED domainRegex
     \/ /\ webhookURL # <<>>
        /\ ~Compile(domainPattern).err
        /\ domainRegex' = Compile(domainPattern)
        /\ pc' = "dial"
        /\ UNCHANGED <<logs, exitCode>>
  /\ UNCHANGED <<env, conn, dials, nRecv, locals, deliveries>>

\* main.go 38-51: read and validate the configuration.
CheckConfig ==
  /\ pc = "config"
  /\ \/ /\ webhookURL = <<>>
        /\ Fatal("SLACK_WEBHOOK_URL must be set", {})
        /\ UNCHANGED domainRegex
     \/ /\ webhookURL # <<>>
        /\ domainPattern = <<>>
        /\ Fatal("DOMAIN_PATTERN must be set", {})
        /\ UNCHANGED domainRegex
     \/ /\ webhookURL # <<>>
        /\ domainPattern # <<>>
        /\ Compile(domainPattern).err
        /\ Fatal("invalid DOMAIN_PATTERN", {"error"})
        /\ UNCHANGED domainRegex
     \/ /\ webhookURL # <<>>
        /\ domainPattern # <<>>
        /\ ~Compile(domainPattern).err
        /\ domainRegex' = Compile(domainPattern)
        /\ pc' = "dial"
        /\ UNCHANGED <<logs, exitCode>>
  /\ UNCHANGED <<env, conn, dials, nRecv, locals, deliveries>>

\* main.go 54-61: connect to the feed.
Dial ==
  /\ pc = "dial"
  /\ dials' = dials + 1
  /\ \/ /\ Fatal("could not connect to certstream", {"error"})
        /\ UNCHANGED conn
     \/ /\ conn' = "open"
        /\ logs' = Append(logs,
             Entry("info", "watching for certificates", {"domainPattern"}, <<>>))
        /\ pc' = "recv"
        /\ UNCHANGED exitCode
  /\ UNCHANGED <<env, domainRegex, nRecv, locals, deliveries>>

\* A faulty variant: a decode failure is logged and the receive is tried again.
ReceiveRetry ==
  /\ pc = "recv"
  /\ nRecv < MaxEvents
  /\ nRecv' = nRecv + 1
  /\ domains' = <<>>
  /\ matches' = <<>>
  /\ fingerprint' = <<>>
  /\ certURL' = <<>>
  /\ payload' = <<>>
  /\ \/ /\ msg' = NoMsg
        /\ logs' = Append(logs,
             [ev |-> nRecv + 1, level |-> "error", msg |-> "error decoding JSON",
              fields |-> {"error"}, fp |-> <<>>])
        /\ pc' = "recv"
        /\ UNCHANGED exitCode
     \/ /\ msg' \in Events
        /\ pc' = "classify"
        /\ UNCHANGED <<logs, exitCode>>
  /\ UNCHANGED <<env, domainRegex, conn, dials, deliveries>>

\* main.go 64-69: conn.ReadJSON(&msg).
Receive ==
  /\ pc = "recv"
  /\ nRecv < MaxEvents
  /\ nRecv' = nRecv + 1
  /\ domains' = <<>>
  /\ matches' = <<>>
  /\ fingerprint' = <<>>
  /\ certURL' = <<>>
  /\ payload' = <<>>
  /\ \/ /\ msg' = NoMsg
        /\ logs' = Append(logs,
             [ev |-> nRecv + 1, level |-> "fatal", msg |-> "error decoding JSON",
              fields |-> {"error"}, fp |-> <<>>])
        /\ pc' = "exited"
        /\ exitCode' = 1
     \/ /\ msg' \in Events
        /\ pc' = "classify"
        /\ UNCHANGED <<logs, exitCode>>
  /\ UNCHANGED <<env, domainRegex, conn, dials, deliveries>>

\* A faulty variant: the comparison with "certificate_update" is inverted.
ClassifyInverted ==
  /\ pc = "classify"
  /\ LET t == jqString(msg.message_type).val
     IN  pc' = IF t = CertificateUpdate THEN "recv" ELSE "domains"
  /\ UNCHANGED <<env, domainRegex, conn, dials, nRecv, locals, logs,
                 deliveries, exitCode>>

\* main.go 72-74: skip everything that is not a certificate_update.
Classify ==
  /\ pc = "classify"
  /\ LET t == jqString(msg.message_type).val
     IN  pc' = IF t # CertificateUpdate THEN "recv" ELSE "domains"
  /\ UNCHANGED <<env, domainRegex, conn, dials, nRecv, locals, logs,
                 deliveries, exitCode>>

\* A faulty variant: the extraction failure is logged with Fatal.
ExtractDomainsFatal ==
  /\ pc = "domains"
  /\ LET r == jqArrayOfStrings(msg.all_domains)
     IN  IF r.err
         THEN /\ Fatal("couldn't get domains", {"error"})
              /\ UNCHANGED domains
         ELSE /\ domains' = r.val
              /\ pc' = "match"
              /\ UNCHANGED <<logs, exitCode>>
  /\ UNCHANGED <<env, domainRegex, conn, dials, nRecv, msg, matches,
                 fingerprint, certURL, payload, deliveries>>

\* A faulty variant: the fingerprint is pulled together with the domains.
ExtractDomainsEager ==
  /\ pc = "domains"
  /\ LET r == jqArrayOfStrings(msg.all_domains)
     IN  IF r.err
         THEN /\ logs' = Append(logs,
                   Entry("error", "couldn't get domains", {"error"}, <<>>))
              /\ pc' = "recv"
              /\ UNCHANGED domains
         ELSE /\ domains' = r.val
              /\ pc' = "match"
              /\ logs' = IF jqString(msg.fingerprint).err
                         THEN Append(logs,
                                Entry("error",
                                      "could not parse fingerprint from matching certificate",
                                      {"error"}, <<>>))
                         ELSE logs
  /\ UNCHANGED <<env, domainRegex, conn, dials, nRecv, msg, matches,
                 fingerprint, certURL, payload, deliveries, exitCode>>

\* main.go 77-81: pull the list of all domains of the leaf certificate.
ExtractDomains ==
  /\ pc = "domains"
  /\ LET r == jqArrayOfStrings(msg.all_domains)
     IN  IF r.err
         THEN /\ logs' = Append(logs,
                   Entry("error", "couldn't get domains", {"error"}, <<>>))
              /\ pc' = "recv"
              /\ UNCHANGED domains
         ELSE /\ domains' = r.val
              /\ pc' = "match"
              /\ UNCHANGED logs
  /\ UNCHANGED <<env, domainRegex, conn, dials, nRecv, msg, matches,
                 fingerprint, certURL, payload, deliveries, exitCode>>

\* main.go 84-91: the matching domains, in input order, in backticks.
RECURSIVE CollectMatches(_, _)
CollectMatches(re, ds) ==
  IF ds = <<>> THEN <<>>
  ELSE (IF MatchString(re, Head(ds))
        THEN <<Backtick \o Head(ds) \o Backtick>> ELSE <<>>)
         \o CollectMatches(re, Tail(ds))

\* A faulty variant: the "<n> others" entry is appended before the sort.
WithOthersSorted(sorted, total) ==
  LET additionalDomains == total - Len(sorted)
  IN  IF additionalDomains > 0
      THEN SortStrings(Append(sorted, Itoa(additionalDomains) \o OthersSuffix))
      ELSE sorted

\* main.go 99-106: sort the matches, then append "<n> others".
WithOthers(sorted, total) ==
  LET additionalDomains == total - Len(sorted)
  IN  IF additionalDomains > 0
      THEN Append(sorted, Itoa(additionalDomains) \o OthersSuffix)
      ELSE sorted

\* A faulty variant: the check for an empty list of matches is missing.
MatchNoEmptyCheck ==
  /\ pc = "match"
  /\ matches' = WithOthers(SortStrings(CollectMatches(domainRegex, domains)),
                           Len(domains))
  /\ pc' = "fingerprint"
  /\ UNCHANGED <<env, domainRegex, conn, dials, nRecv, msg, domains,
                 fingerprint, certURL, payload, logs, deliveries, exitCode>>

\* main.go 84-106.
Match ==
  /\ pc = "match"
  /\ LET m == CollectMatches(domainRegex, domains)
     IN  IF Len(m) = 0
         THEN /\ matches' = m
              /\ pc' = "recv"
         ELSE /\ matches' = WithOthers(SortStrings(m), Len(domains))
              /\ pc' = "fingerprint"
  /\ UNCHANGED <<env, domainRegex, conn, dials, nRecv, msg, domains,
                 fingerprint, certURL, payload, logs, deliveries, exitCode>>

\* main.go 113
CertURL(fp) == CrtShPrefix \o ReplaceAll(fp, ":", <<>>)

\* A faulty variant: a failed extraction skips the event.
ExtractFingerprintAbort ==
  /\ pc = "fingerprint"
  /\ LET r == jqString(msg.fingerprint)
     IN  IF r.err
         THEN /\ logs' = Append(logs,
                   Entry("error",
                         "could not parse fingerprint from matching certificate",
                         {"error"}, <<>>))
              /\ pc' = "recv"
              /\ UNCHANGED <<fingerprint, certURL>>
         ELSE /\ fingerprint' = r.val
              /\ certURL' = CrtShPrefix \o ReplaceAll(r.val, ":", <<>>)
              /\ pc' = "send"
              /\ UNCHANGED logs
  /\ UNCHANGED <<env, domainRegex, conn, dials, nRecv, msg, domains, matches,
                 payload, deliveries, exitCode>>

\* main.go 109-113: the fingerprint and the crt.sh URL.
ExtractFingerprint ==
  /\ pc = "fingerprint"
  /\ LET r == jqString(msg.fingerprint)
     IN  /\ fingerprint' = r.val
         /\ logs' = IF r.err
                    THEN Append(logs,
                           Entry("error",
                                 "could not parse fingerprint from matching certificate",
                                 {"error"}, <<>>))
                    ELSE logs
         /\ certURL' = CertURL(r.val)
  /\ pc' = "send"
  /\ UNCHANGED <<env, domainRegex, conn, dials, nRecv, msg, domains, matches,
                 payload, deliveries, exitCode>>

\* main.go 117-121
PayloadText(ms, url) ==
  FoundPrefix \o OxfordWordSeries(ms, And) \o <<":", " ">> \o url

\* A call of slack.Send for the current message; done once it has returned.
Delivery == [ev |-> nRecv, url |-> webhookURL, done |-> FALSE]

\* A faulty variant: slack.Send runs in a goroutine of its own and the loop
\* goes on without waiting for it.
SendAsync ==
  /\ pc = "send"
  /\ payload' = PayloadText(matches, certURL)
  /\ deliveries' = Append(deliveries, Delivery)
  /\ pc' = "recv"
  /\ UNCHANGED <<env, domainRegex, conn, dials, nRecv, msg, domains, matches,
                 fingerprint, certURL, logs, exitCode>>

\* A faulty variant: nothing is sent once a notification has gone out.
SendOnce ==
  /\ pc = "send"
  /\ IF deliveries = <<>>
     THEN /\ payload' = PayloadText(matches, certURL)
          /\ deliveries' = Append(deliveries, Delivery)
          /\ pc' = "sending"
     ELSE /\ pc' = "recv"
          /\ UNCHANGED <<payload, deliveries>>
  /\ UNCHANGED <<env, domainRegex, conn, dials, nRecv, msg, domains, matches,
                 fingerprint, certURL, logs, exitCode>>

\* main.go 116-123: build the payload and call slack.Send.
Send ==
  /\ pc = "send"
  /\ payload' = PayloadText(matches, certURL)
  /\ deliveries' = Append(deliveries, Delivery)
  /\ pc' = "sending"
  /\ UNCHANGED <<env, domainRegex, conn, dials, nRecv, msg, domains, matches,
                 fingerprint, certURL, logs, exitCode>>

\* main.go 124: one entry for each error slack.Send returned.
SendErrors(n) ==
  [i \in 1..n |->
     Entry("error", "error sending webhook", {"error", "fingerprint"},
           fingerprint)]

Returned == [deliveries EXCEPT ![Len(deliveries)].done = TRUE]

\* A faulty variant: a failed delivery is sent again.
SendReturnRetry ==
  /\ pc = "sending"
  /\ \E n \in 0..MaxSendErrors :
        /\ logs' = logs \o SendErrors(n)
        /\ pc' = IF n = 0 \/ Len(deliveries) >= MaxEvents THEN "recv" ELSE "send"
  /\ deliveries' = Returned
  /\ UNCHANGED <<env, domainRegex, conn, dials, nRecv, locals, exitCode>>

\* main.go 123-125: slack.Send returns; every error it returned is logged.
SendReturn ==
  /\ pc = "sending"
  /\ \E n \in 0..MaxSendErrors : logs' = logs \o SendErrors(n)
  /\ deliveries' = Returned
  /\ pc' = "recv"
  /\ UNCHANGED <<env, domainRegex, conn, dials, nRecv, locals, exitCode>>

\* main.go 72-122: what one iteration does with the message m, as a function
\* of m and the compiled pattern alone.
Outcome(re, m) ==
  IF jqString(m.message_type).val # CertificateUpdate
  THEN [kind |-> "skip", text |-> <<>>, errors |-> <<>>]
  ELSE IF jqArrayOfStrings(m.all_domains).err
  THEN [kind |-> "error", text |-> <<>>, errors |-> <<"couldn't get domains">>]
  ELSE LET ds == jqArrayOfStrings(m.all_domains).val
           ms == CollectMatches(re, ds)
           fp == jqString(m.fingerprint)
       IN  IF Len(ms) = 0
           THEN [kind |-> "nomatch", text |-> <<>>, errors |-> <<>>]
           ELSE [kind |-> "notify",
                 text |-> PayloadText(WithOthers(SortStrings(ms), Len(ds)),
                                      CertURL(fp.val)),
                 errors |->
                   IF fp.err
                   THEN <<"could not parse fingerprint from matching certificate">>
                   ELSE <<>>]

Next ==
  \/ CheckConfig
  \/ Dial
  \/ Receive
  \/ Classify
  \/ ExtractDomains
  \/ Match
  \/ ExtractFingerprint
  \/ Send
  \/ SendReturn

Spec == Init /\ [][Next]_vars

\* ------------------------------------------------ vocabulary of the claims
\* The message of the current iteration, as the feed delivered it.
IsUpdate   == msg.message_type = JStr(CertificateUpdate)
HasDomains == msg.all_domains.t = "array"
HasFingerprint == msg.fingerprint.t = "string"
AllDomains == msg.all_domains.a
N == Len(AllDomains)
MatchedIdx == {i \in 1..N : MatchString(domainRegex, AllDomains[i])}
M == Cardinality(MatchedIdx)

\* Message number nRecv has been handled and the loop is back at the receive.
Handled == pc = "recv" /\ nRecv > 0
\* slack.Send has been called for the current message.
Notified == pc \in {"sending", "recv"} /\ payload # <<>>

Attempts(k) == Cardinality({i \in DOMAIN deliveries : deliveries[i].ev = k})
LogsOf(k)   == {i \in DOMAIN logs : logs[i].ev = k}

Wrapped(d) == <<"backtick">> \o d \o <<"backtick">>

HasPrefix(s, pre) == Len(pre) <= Len(s) /\ SubSeq(s, 1, Len(pre)) = pre
HasSuffix(s, suf) ==
  Len(suf) <= Len(s) /\ SubSeq(s, Len(s) - Len(suf) + 1, Len(s)) = suf

OccursAt(text, w, i) ==
  i + Len(w) - 1 <= Len(text) /\ SubSeq(text, i, i + Len(w) - 1) = w

\* The first position at or after from where w occurs in text, 0 if none.
IndexFrom(text, w, from) ==
  IF \E i \in from..Len(text) : OccursAt(text, w, i)
  THEN CHOOSE i \in from..Len(text) :
         /\ OccursAt(text, w, i)
         /\ \A j \in from..(i - 1) : ~OccursAt(text, w, j)
  ELSE 0

\* The entries ws occur in text one after the other, from position from on.
RECURSIVE ListedInOrder(_, _, _)
ListedInOrder(text, ws, from) ==
  \/ ws = <<>>
  \/ LET i == IndexFrom(text, Head(ws), from)
     IN  i # 0 /\ ListedInOrder(text, Tail(ws), i + Len(Head(ws)))

\* The arrangements of the matched domains of the current message.
Arrangements ==
  {f \in [1..M -> MatchedIdx] : \A i, j \in 1..M : i # j => f[i] # f[j]}

\* The text lists exactly the matched domains, in backticks, in the order f.
ListsMatched(f) ==
  /\ HasPrefix(payload, FoundPrefix)
  /\ ListedInOrder(payload, [i \in 1..M |-> Wrapped(AllDomains[f[i]])],
                   Len(FoundPrefix) + 1)
  /\ \A j \in (1..N) \ MatchedIdx :
        IndexFrom(payload, Wrapped(AllDomains[j]), 1) = 0

MatchingUpdate == IsUpdate /\ HasDomains /\ M >= 1

\* ------------------------------------------------------------------- C1
\* C1 as stated: a handled certificate_update with a matching domain has had
\* exactly one delivery attempt, and its text lists the matched domains, in
\* backticks, in ascending lexicographic order of the domains.
C1_SortedByDomain ==
  (Handled /\ MatchingUpdate) =>
    /\ Attempts(nRecv) = 1
    /\ \E f \in Arrangements :
          /\ \A i \in 1..(M - 1) :
                ~StrLess(AllDomains[f[i + 1]], AllDomains[f[i]])
          /\ ListsMatched(f)

\* C1 amended: no message ever has two delivery attempts; a handled
\* certificate_update with a matching domain has had exactly one, and its
\* text lists the matched domains, in backticks, in ascending byte order of
\* the backtick-wrapped strings.
C1_SortedByWrappedDomain ==
  /\ \A k \in 1..nRecv : Attempts(k) <= 1
  /\ (Handled /\ MatchingUpdate) =>
       /\ Attempts(nRecv) = 1
       /\ \E f \in Arrangements :
             /\ \A i \in 1..(M - 1) :
                   ~StrLess(Wrapped(AllDomains[f[i + 1]]),
                            Wrapped(AllDomains[f[i]]))
             /\ ListsMatched(f)

\* Two matched domains arrived in descending order and were notified.
C1_Witness ==
  /\ Handled /\ MatchingUpdate
  /\ M >= 2
  /\ \E i, j \in MatchedIdx : i < j /\ StrLess(AllDomains[j], AllDomains[i])
  /\ Attempts(nRecv) = 1

\* ------------------------------------------------------------------- C2
\* C2: while the current message has no message_type or another one than
\* "certificate_update", the loop is at the classification or back at the
\* receive, no delivery attempt was made for it and nothing was logged for it.
C2_OtherTypesSkipped ==
  (nRecv > 0 /\ pc # "exited" /\ ~IsUpdate) =>
    /\ pc \in {"classify", "recv"}
    /\ Attempts(nRecv) = 0
    /\ LogsOf(nRecv) = {}

\* A heartbeat carrying matching domains was skipped after an earlier message
\* had been notified.
C2_Witness ==
  /\ Handled /\ nRecv = 2
  /\ msg.message_type = JStr(Heartbeat)
  /\ HasDomains /\ M >= 1
  /\ Attempts(1) = 1

\* ------------------------------------------------------------------- C3
\* C3: a certificate_update none of whose domains matches (an empty array
\* included) gets no delivery attempt, and the loop goes back to the receive
\* from the match.
C3_NoMatchNoDelivery ==
  (nRecv > 0 /\ IsUpdate /\ HasDomains /\ M = 0) =>
    /\ Attempts(nRecv) = 0
    /\ pc \in {"classify", "domains", "match", "recv"}
    /\ exitCode = -1

\* Three domains, none matching, were handled.
C3_Witness ==
  /\ Handled /\ IsUpdate /\ HasDomains
  /\ N = 3 /\ M = 0
  /\ matches = <<>>

\* The empty array was handled.
C3_WitnessEmpty == Handled /\ IsUpdate /\ HasDomains /\ N = 0

\* ------------------------------------------------------------------- C4
\* C4: once the series of a matching certificate_update is built, it has M
\* entries when M = N and M + 1 entries when M < N; the first M are matched
\* domains in backticks; when M < N the last one reads "<N-M> others", it is
\* the only such entry, and the text sent ends with it, ": " and the URL.
IsOthers(e) == HasSuffix(e, OthersSuffix)

C4_OthersEntryLast ==
  (MatchingUpdate /\ pc \in {"fingerprint", "send", "sending", "recv"}) =>
    /\ Len(matches) = IF M < N THEN M + 1 ELSE M
    /\ \A i \in 1..M :
          \E j \in MatchedIdx : matches[i] = Wrapped(AllDomains[j])
    /\ M < N =>
          /\ matches[M + 1] = Itoa(N - M) \o OthersSuffix
          /\ Cardinality({i \in DOMAIN matches : IsOthers(matches[i])}) = 1
          /\ Notified =>
               HasSuffix(payload,
                         Itoa(N - M) \o OthersSuffix \o <<":", " ">> \o certURL)
    /\ M = N => \A i \in DOMAIN matches : ~IsOthers(matches[i])

\* Two of three domains matched and the notification was sent.
C4_Witness ==
  /\ Notified /\ MatchingUpdate
  /\ M = 2 /\ N = 3
  /\ Len(matches) = 3

\* All three domains matched and the notification was sent.
C4_WitnessAll == Notified /\ MatchingUpdate /\ M = 3 /\ N = 3

\* ------------------------------------------------------------------- C5
\* C5 as stated: the lookup URL of a notification has no colon at all.
C5_NoColonInURL == Notified => Count(certURL, ":") = 0

\* C5 amended: the lookup URL of a notification is "https://crt.sh/?q="
\* followed by the fingerprint of the message without its colons; what
\* follows the template has no colon, and the text sent ends with the URL.
NotColon(c) == c # ":"

C5_NoColonInQuery ==
  Notified =>
    /\ HasPrefix(certURL, CrtShPrefix)
    /\ LET q == SubSeq(certURL, Len(CrtShPrefix) + 1, Len(certURL))
       IN  /\ Count(q, ":") = 0
           /\ q = SelectSeq(jqString(msg.fingerprint).val, NotColon)
    /\ HasSuffix(payload, <<":", " ">> \o certURL)

\* A fingerprint with two colons went into a notification.
C5_Witness ==
  /\ Notified
  /\ msg.fingerprint = JStr(FpABC)
  /\ certURL = CrtShPrefix \o <<"A","A","B","B","C","C">>

\* ------------------------------------------------------------------- C6
IsExample ==
  /\ IsUpdate
  /\ msg.all_domains = JArr(<<AHeptio, BOther, CHeptio>>)
  /\ msg.fingerprint = JStr(FpABC)
  /\ domainPattern = PatHeptio

ExampleURL == CrtShPrefix \o <<"A","A","B","B","C","C">>

\* C6 as stated: for the example the text ends with the two matched domains
\* and "1 others" joined by " and " with no commas.
C6_ExampleJoinedByAnd ==
  (Notified /\ IsExample) =>
    HasSuffix(payload,
      Wrapped(AHeptio) \o <<" ","a","n","d"," ">> \o Wrapped(CHeptio)
        \o <<" ","a","n","d"," ">> \o <<"1">> \o OthersSuffix
        \o <<":", " ">> \o ExampleURL)

\* C6 amended: whenever exactly two domains match and one or more do not, the
\* text is the prefix, the first matched entry, ", ", the second, ", and ",
\* "<n> others", ": " and the URL; for the example it ends with
\* "`a.heptio.com`, `c.heptio.com`, and 1 others: https://crt.sh/?q=AABBCC".
C6_TwoMatchesAndOthers ==
  /\ (Notified /\ MatchingUpdate /\ M = 2 /\ N > 2) =>
       \E i, j \in MatchedIdx :
          /\ i # j
          /\ payload =
               FoundPrefix \o Wrapped(AllDomains[i]) \o <<",", " ">>
                 \o Wrapped(AllDomains[j]) \o <<",", " ", "a", "n", "d", " ">>
                 \o Itoa(N - 2) \o OthersSuffix \o <<":", " ">> \o certURL
  /\ (Notified /\ IsExample) =>
       HasSuffix(payload,
         Wrapped(AHeptio) \o <<",", " ">> \o Wrapped(CHeptio)
           \o <<",", " ", "a", "n", "d", " ">> \o <<"1">> \o OthersSuffix
           \o <<":", " ">> \o ExampleURL)

\* The example was notified.
C6_Witness == Notified /\ IsExample /\ M = 2 /\ N = 3

\* ------------------------------------------------------------------- C7
\* The series as the claim words it: the entries but the last each followed
\* by ", ", then "and " and the last entry.
RECURSIVE CommaSeries(_)
CommaSeries(ws) ==
  IF Len(ws) = 1 THEN <<"a", "n", "d", " ">> \o ws[1]
  ELSE ws[1] \o <<",", " ">> \o CommaSeries(Tail(ws))

SeriesOf(ws) ==
  IF Len(ws) = 1 THEN ws[1]
  ELSE IF Len(ws) = 2 THEN ws[1] \o <<" ", "a", "n", "d", " ">> \o ws[2]
  ELSE CommaSeries(ws)

\* C7: the text of a notification is "Found matching certificate for ", the
\* series of its entries, ": " and the URL; one entry stands alone, two are
\* joined by " and ", three or more are separated by ", " with "and " before
\* the last.
C7_TextIsSeriesAndURL ==
  Notified =>
    /\ Len(matches) >= 1
    /\ payload = FoundPrefix \o SeriesOf(matches) \o <<":", " ">> \o certURL

\* Notifications with one, two and three entries were sent.
C7_Witness == Notified /\ Len(matches) = 3
C7_WitnessOne == Notified /\ Len(matches) = 1
C7_WitnessTwo == Notified /\ Len(matches) = 2

\* ------------------------------------------------------------------- C8
\* C8: while the current message is a certificate_update without a readable
\* all_domains array, the process runs, no delivery attempt was made for it,
\* the loop does not get past the extraction, and once it is back at the
\* receive exactly one entry was logged for the message: the error
\* "couldn't get domains".
C8_DomainsErrorSkips ==
  (nRecv > 0 /\ IsUpdate /\ ~HasDomains) =>
    /\ exitCode = -1
    /\ pc \in {"classify", "domains", "recv"}
    /\ Attempts(nRecv) = 0
    /\ pc = "recv" =>
         /\ Cardinality(LogsOf(nRecv)) = 1
         /\ \A i \in LogsOf(nRecv) :
               logs[i].level = "error" /\ logs[i].msg = "couldn't get domains"

\* The first message had no readable all_domains; the second one was received
\* after it and notified.
C8_Witness ==
  /\ nRecv = 2 /\ Notified
  /\ \E i \in LogsOf(1) : logs[i].msg = "couldn't get domains"
  /\ Attempts(1) = 0 /\ Attempts(2) = 1

\* An all_domains that is a string, not an array, was skipped.
C8_WitnessMalformed ==
  Handled /\ IsUpdate /\ msg.all_domains.t = "string" /\ LogsOf(nRecv) # {}

\* ------------------------------------------------------------------- C9
FingerprintErrors(k) ==
  {i \in LogsOf(k) :
     logs[i].msg = "could not parse fingerprint from matching certificate"}

\* C9: a handled certificate_update with a matching domain and no readable
\* fingerprint has had its failure logged once and exactly one delivery
\* attempt, whose URL is "https://crt.sh/?q=" with nothing after it.
C9_FingerprintErrorStillNotifies ==
  (Handled /\ MatchingUpdate /\ ~HasFingerprint) =>
    /\ Cardinality(FingerprintErrors(nRecv)) = 1
    /\ Attempts(nRecv) = 1
    /\ certURL = CrtShPrefix
    /\ HasSuffix(payload, <<":", " ">> \o CrtShPrefix)
    /\ HasPrefix(payload, FoundPrefix)

\* A matching certificate_update without a fingerprint was handled.
C9_Witness ==
  /\ Handled /\ MatchingUpdate /\ ~HasFingerprint
  /\ Attempts(nRecv) = 1

\* ------------------------------------------------------------------ C10
\* C10 as stated: when the fingerprint of a matching certificate_update
\* cannot be extracted, the event is abandoned: no delivery attempt is made
\* for it.
C10_FingerprintErrorAbandons ==
  (nRecv > 0 /\ MatchingUpdate /\ ~HasFingerprint) => Attempts(nRecv) = 0

\* ------------------------------------------------------------------ C11
SendErrorsOf(k) == {i \in LogsOf(k) : logs[i].msg = "error sending webhook"}

\* C11: no message has more than one delivery attempt and a handled matching
\* certificate_update has had exactly one, which has returned; every delivery
\* failure is logged as an error with the field fingerprint, for a message
\* that had one attempt; and while the failed message is the current one, the
\* entry carries its fingerprint, the process runs and the loop is back at
\* the receive.
C11_FireAndForget ==
  /\ \A k \in 1..nRecv : Attempts(k) <= 1
  /\ (Handled /\ MatchingUpdate) =>
       /\ Attempts(nRecv) = 1
       /\ deliveries[Len(deliveries)].done
  /\ \A i \in DOMAIN logs :
        logs[i].msg = "error sending webhook" =>
          /\ logs[i].level = "error"
          /\ "fingerprint" \in logs[i].fields
          /\ Attempts(logs[i].ev) = 1
          /\ logs[i].ev = nRecv =>
               /\ logs[i].fp = jqString(msg.fingerprint).val
               /\ pc = "recv"
               /\ exitCode = -1

\* The delivery for the first message failed and was logged with the
\* fingerprint; the second message was received and delivered once.
C11_Witness ==
  /\ Handled /\ nRecv = 2
  /\ \E i \in SendErrorsOf(1) : logs[i].fp = FpABC
  /\ Attempts(1) = 1 /\ Attempts(2) = 1
  /\ SendErrorsOf(2) = {}

\* ------------------------------------------------------------------ C12
DecodeErrors == {i \in DOMAIN logs : logs[i].msg = "error decoding JSON"}

\* C12: in every state in which a decode failure has been logged, it was
\* logged as fatal and is the last entry, the process has exited with status
\* 1, no receive was issued after the failing one, no message was decoded or
\* delivered by it, and the connection was dialled once only.
C12_DecodeFailureIsFatal ==
  \A i \in DecodeErrors :
     /\ logs[i].level = "fatal"
     /\ i = Len(logs)
     /\ pc = "exited"
     /\ exitCode = 1
     /\ nRecv = logs[i].ev
     /\ msg = NoMsg
     /\ Attempts(nRecv) = 0
     /\ dials = 1

\* The second receive failed after the first message had been notified.
C12_Witness ==
  /\ pc = "exited" /\ nRecv = 2
  /\ DecodeErrors # {}
  /\ Attempts(1) = 1

\* ------------------------------------------------------------------ C13
ConfigInvalid ==
  \/ webhookURL = <<>>
  \/ domainPattern = <<>>
  \/ Compile(domainPattern).err

ConfigFaults ==
  {"SLACK_WEBHOOK_URL must be set", "DOMAIN_PATTERN must be set",
   "invalid DOMAIN_PATTERN"}
StartupFaults == ConfigFaults \cup {"could not connect to certstream"}

\* C13: the connection is dialled at most once; with an invalid
\* configuration it is never dialled, nothing is received or sent, and the
\* process exits on the configuration fault alone; a logged startup fault is
\* fatal and final, with no receive, no delivery and no open connection; and
\* the dial happens only with a valid configuration and a compiled pattern.
C13_StartupFaultsFatal ==
  /\ dials <= 1
  /\ ConfigInvalid =>
       /\ dials = 0 /\ conn = "none" /\ nRecv = 0 /\ deliveries = <<>>
       /\ pc \in {"config", "exited"}
       /\ pc = "exited" => Len(logs) = 1 /\ logs[1].msg \in ConfigFaults
  /\ \A i \in DOMAIN logs :
        logs[i].msg \in StartupFaults =>
          /\ logs[i].level = "fatal"
          /\ i = Len(logs)
          /\ pc = "exited" /\ exitCode = 1
          /\ nRecv = 0 /\ deliveries = <<>> /\ conn = "none"
  /\ (dials = 1 \/ pc = "dial") =>
       ~ConfigInvalid /\ domainRegex = Compile(domainPattern)
  /\ nRecv > 0 => conn = "open" /\ dials = 1

\* The one connection attempt failed and the process exited.
C13_Witness ==
  /\ pc = "exited" /\ dials = 1 /\ conn = "none"
  /\ \E i \in DOMAIN logs : logs[i].msg = "could not connect to certstream"

\* The pattern did not compile and the process exited without dialling.
C13_WitnessPattern ==
  /\ pc = "exited" /\ dials = 0
  /\ \E i \in DOMAIN logs : logs[i].msg = "invalid DOMAIN_PATTERN"

\* ------------------------------------------------------------------ C14
\* C14: delivery calls are made in the order of the messages and log entries
\* are written in it; nothing is logged or delivered for a message not yet
\* received; a delivery call that has not returned is the last one made, is
\* for the current message, and the loop is waiting for it; so at most one
\* is outstanding, and none is when a receive is issued.
C14_StrictlySequential ==
  /\ \A i, j \in DOMAIN deliveries :
        i < j => deliveries[i].ev < deliveries[j].ev
  /\ \A i, j \in DOMAIN logs : i < j => logs[i].ev <= logs[j].ev
  /\ \A i \in DOMAIN logs : logs[i].ev <= nRecv
  /\ \A i \in DOMAIN deliveries :
        /\ deliveries[i].ev \in 1..nRecv
        /\ ~deliveries[i].done =>
             /\ i = Len(deliveries)
             /\ deliveries[i].ev = nRecv
             /\ pc = "sending"
  /\ pc = "sending" =>
       deliveries # <<>> /\ ~deliveries[Len(deliveries)].done
  /\ Cardinality({i \in DOMAIN deliveries : ~deliveries[i].done}) <= 1

\* The delivery for the second message is outstanding; the one for the
\* first has returned.
C14_Witness ==
  /\ pc = "sending" /\ nRecv = 2
  /\ Len(deliveries) = 2
  /\ deliveries[1].done /\ ~deliveries[2].done

\* ------------------------------------------------------------------ C15
\* C15 as stated: whenever the process has exited after the connection was
\* established, the connection has been closed.
C15_ClosedOnExit == (pc = "exited" /\ conn # "none") => conn = "closed"

\* ------------------------------------------------------------------ C16
Perms(n) ==
  {p \in [1..n -> 1..n] : \A i, j \in 1..n : i # j => p[i] # p[j]}

\* The current message with its all_domains rearranged by p.
Permuted(p) ==
  [msg EXCEPT !.all_domains = JArr([i \in 1..N |-> AllDomains[p[i]]])]

\* C16: for a handled certificate_update and every rearrangement of its
\* all_domains (the fingerprint kept), one iteration on the rearranged
\* message sends a notification exactly if one was sent for this message,
\* and with the very text that was sent.
C16_OrderIndependent ==
  (Handled /\ IsUpdate /\ HasDomains) =>
    \A p \in Perms(N) :
       LET o == Outcome(domainRegex, Permuted(p))
       IN  /\ (o.kind = "notify") = (Attempts(nRecv) = 1)
           /\ o.text = payload

\* Three matching domains, not in ascending order, were notified.
C16_Witness ==
  /\ Handled /\ MatchingUpdate
  /\ M = 3 /\ N = 3
  /\ StrLess(AllDomains[3], AllDomains[1])
  /\ Attempts(nRecv) = 1

\* ------------------------------------------------------------------ C17
IsOwnError(e) == e.ev = nRecv /\ e.msg # "error sending webhook"

\* What was logged for the current message before its delivery returned.
OwnErrors ==
  LET sel == SelectSeq(logs, IsOwnError)
  IN  [i \in DOMAIN sel |-> sel[i].msg]

\* C17: whatever was handled before, a handled message has had one delivery
\* attempt if the iteration, as a function of the message and the pattern
\* alone, notifies, and none otherwise; the text sent and the errors logged
\* before the delivery are those of that function.
C17_HistoryIndependent ==
  Handled =>
    LET o == Outcome(domainRegex, msg)
    IN  /\ Attempts(nRecv) = IF o.kind = "notify" THEN 1 ELSE 0
        /\ payload = o.text
        /\ OwnErrors = o.errors

\* A second matching message was notified after the delivery of the first
\* had failed.
C17_Witness ==
  /\ Handled /\ nRecv = 2 /\ MatchingUpdate
  /\ Attempts(1) = 1 /\ Attempts(2) = 1
  /\ SendErrorsOf(1) # {}

\* ------------------------------------------------------------------ C18
\* C18: a message that is no certificate_update, or has no readable
\* all_domains, or no matching domain, never gets its fingerprint extracted
\* nor a fingerprint error; a domain-extraction error is the only entry of
\* its message, which gets no delivery attempt; nothing is logged or sent
\* for a message before its fingerprint stage; at most one fingerprint error
\* is logged, before the delivery attempt and before any delivery error; and
\* a delivery error is logged only after the attempt was made.
C18_StageOrder ==
  /\ (nRecv > 0 /\ pc # "exited" /\ (~IsUpdate \/ ~HasDomains \/ M = 0)) =>
       /\ FingerprintErrors(nRecv) = {}
       /\ fingerprint = <<>>
       /\ certURL = <<>>
  /\ \A i \in LogsOf(nRecv) :
        logs[i].msg = "couldn't get domains" =>
          LogsOf(nRecv) = {i} /\ Attempts(nRecv) = 0
  /\ pc \in {"classify", "domains", "match", "fingerprint"} =>
       Attempts(nRecv) = 0 /\ LogsOf(nRecv) = {}
  /\ pc = "send" => Attempts(nRecv) = 0 /\ SendErrorsOf(nRecv) = {}
  /\ pc = "sending" => SendErrorsOf(nRecv) = {}
  /\ Cardinality(FingerprintErrors(nRecv)) <= 1
  /\ (Attempts(nRecv) = 1 /\ ~HasFingerprint) => FingerprintErrors(nRecv) # {}
  /\ \A i \in FingerprintErrors(nRecv) : \A j \in SendErrorsOf(nRecv) : i < j
  /\ SendErrorsOf(nRecv) # {} => Attempts(nRecv) = 1

\* A fingerprint error, the delivery attempt and a delivery error, in that
\* order, for one message.
C18_Witness ==
  /\ Handled /\ MatchingUpdate /\ ~HasFingerprint
  /\ FingerprintErrors(nRecv) # {}
  /\ SendErrorsOf(nRecv) # {}

\* A certificate_update without fingerprint and without a matching domain
\* was handled.
C18_WitnessNoMatch ==
  /\ Handled /\ IsUpdate /\ HasDomains /\ N >= 1 /\ M = 0 /\ ~HasFingerprint
  /\ LogsOf(nRecv) = {}

====
